---- MODULE Spec2Model ----
(***************************************************************************)
(* Model of flow_test/transform_tasks/xarray.py: the two Prefect tasks     *)
(* chunk and combine_and_write.                                            *)
(*                                                                         *)
(* A dataset is a matrix over the two dimensions "time" and "x": a         *)
(* sequence of rows (one per time step), each row a sequence of cells (one *)
(* per x position).  The calls into fsspec, xarray and zarr are modelled   *)
(* by their effect on such matrices: open_mfdataset(combine="nested")      *)
(* concatenates in list order along concat_dim, Dataset.chunk sets the     *)
(* dask chunk sizes of a dimension, to_zarr(mode="w") replaces the store,  *)
(* and to_zarr(mode="a", append_dim=d) extends it along d.                 *)
(***************************************************************************)
EXTENDS Naturals, Sequences, FiniteSets

VARIABLES
    store,              \* the target store behind fsspec.get_mapper(target)
    pc,                 \* per invocation: "write" between lines 82 and 83
    sources,            \* per invocation: parameter sources
    target,             \* per invocation: parameter target
    append_dim,         \* per invocation: parameter append_dim
    concat_dim,         \* per invocation: parameter concat_dim
    ds,                 \* per invocation: local of lines 73 and 75
    kwargs,             \* per invocation: local of lines 80 and 82 (the mode)
    result,             \* per invocation: what the call gave its caller
    entry,              \* history: the store and the log when the call began
    log,                \* history: the to_zarr writes that completed, in order
    ncalls,             \* number of invocations started
    it_sources,         \* chunk: parameter sources
    it_size,            \* chunk: parameter size
    it_pos,             \* chunk: items the iterator has consumed
    it_out,             \* chunk: the tuples collected by list(...)
    it_pc               \* chunk: position in chunk

vars == << store, pc, sources, target, append_dim, concat_dim,
           ds, kwargs, result, entry, log, ncalls,
           it_sources, it_size, it_pos, it_out, it_pc >>

cw_vars == << store, pc, sources, target, append_dim, concat_dim,
              ds, kwargs, result, entry, log, ncalls >>

it_vars == << it_sources, it_size, it_pos, it_out, it_pc >>

----------------------------------------------------------------------------
(* Bounds *)

MaxBatch == 2       \* longest list of sources given to one call
MaxCalls == 2       \* invocations of combine_and_write in one behaviour
MaxLen == 4         \* longest list given to chunk
MaxSize == 3        \* largest size given to chunk

Procs == {1, 2}
Main == 1
Items == {1, 2, 3}
Dims == {"time", "x"}
Target == "memory://target.zarr"

----------------------------------------------------------------------------
(* The cache the source URLs point into, as in the docstring's example    *)
(* (lines 50-58): one dataset cut along "time" into two files of several  *)
(* time steps each, here the time ranges [0,2) and [2,4), each cell        *)
(* holding its time index.                                                 *)

Urls == {"cache/0.nc", "cache/1.nc"}

FileAt(url) ==
    CASE url = "cache/0.nc" -> << <<0>>, <<1>> >>
      [] url = "cache/1.nc" -> << <<2>>, <<3>> >>

----------------------------------------------------------------------------
(* Matrices *)

Other(d) == IF d = "time" THEN "x" ELSE "time"

Size(m, d) ==
    IF d = "time" THEN Len(m)
    ELSE IF Len(m) = 0 THEN 0 ELSE Len(m[1])

Concat2(a, b, d) ==
    IF d = "time" THEN a \o b
    ELSE [i \in 1..Len(a) |-> a[i] \o b[i]]

RECURSIVE ConcatAll(_, _)
ConcatAll(ms, d) ==
    IF Len(ms) = 1 THEN ms[1]
    ELSE Concat2(ConcatAll(SubSeq(ms, 1, Len(ms) - 1), d), ms[Len(ms)], d)

\* The sizes of the blocks when a dimension of length n is cut into chunks
\* of length c: c, c, ..., and the rest.
RECURSIVE Blocks(_, _)
Blocks(n, c) ==
    IF n = 0 THEN << >>
    ELSE IF n <= c THEN << n >>
    ELSE << c >> \o Blocks(n - c, c)

NumBlocks(n, c) == Len(Blocks(n, c))

----------------------------------------------------------------------------
(* The library calls of combine_and_write *)

NoDataset == [data |-> << >>, chunks |-> [d \in Dims |-> << >>]]

\* xr.open_mfdataset(files, combine="nested", concat_dim=d) accepts the
\* files: there is at least one, and they agree on the other dimension.
CanCombine(files, d) ==
    /\ Len(files) > 0
    /\ \A i \in 1..Len(files) : Size(files[i], Other(d)) = Size(files[1], Other(d))

\* The files in the order of their first index, ties in list order.
SortedByFirst(files) ==
    LET n == Len(files)
        perms == { f \in [1..n -> 1..n] :
                      \A i, j \in 1..n : i # j => f[i] # f[j] }
        g == CHOOSE f \in perms :
                \A i \in 1..n - 1 :
                   \/ files[f[i]][1][1] < files[f[i + 1]][1][1]
                   \/ /\ files[f[i]][1][1] = files[f[i + 1]][1][1]
                      /\ f[i] < f[i + 1]
    IN  [i \in 1..n |-> files[g[i]]]

\* open_mfdataset with combine="by_coords": the files are put in the order
\* of their coordinates before they are joined.
open_mfdataset_by_coords(files, d) ==
    [data   |-> ConcatAll(SortedByFirst(files), d),
     chunks |-> [e \in Dims |->
                    IF e = d
                    THEN [i \in 1..Len(files) |-> Size(SortedByFirst(files)[i], d)]
                    ELSE << Size(files[1], e) >>]]

\* xr.open_mfdataset(files, combine="nested", concat_dim=d) (line 73): the
\* files joined along d in list order, one dask chunk per file along d.
open_mfdataset(files, d) ==
    [data   |-> ConcatAll(files, d),
     chunks |-> [e \in Dims |->
                    IF e = d THEN [i \in 1..Len(files) |-> Size(files[i], d)]
                    ELSE << Size(files[1], e) >>]]

\* ds.chunk({d: n}) (line 75): dimension d cut into dask chunks of length n.
chunk_dim(dset, d, n) ==
    [dset EXCEPT !.chunks[d] = Blocks(Size(dset.data, d), n)]

EmptyStore == [data |-> << >>, chunks |-> [d \in Dims |-> 0]]

\* len(mapper) (line 78): the number of keys in the store: none before the
\* first write, then the group's metadata and one object per chunk.
MapperLen(s) ==
    IF s.data = << >> THEN 0
    ELSE 1 + NumBlocks(Size(s.data, "time"), s.chunks["time"])
           * NumBlocks(Size(s.data, "x"), s.chunks["x"])

\* The branch for a store that holds data left out: every write is a first
\* write.
WriteKwargsAlwaysCreate(s, adim) == [mode |-> "w", append_dim |-> "none"]

\* Lines 78-82: the keyword arguments of the write.
WriteKwargs(s, adim) ==
    IF ~(MapperLen(s) > 0) THEN [mode |-> "w", append_dim |-> "none"]
    ELSE [mode |-> "a", append_dim |-> adim]

\* An append that also refuses a batch whose indexes are not all after the
\* indexes the store holds.
CanWriteOrdered(s, dset, kw) ==
    kw.mode = "a" =>
        /\ s.data # << >>
        /\ Size(s.data, Other(kw.append_dim)) = Size(dset.data, Other(kw.append_dim))
        /\ \A t \in 1..Len(s.data), u \in 1..Len(dset.data) :
              \A x \in 1..Len(s.data[t]), y \in 1..Len(dset.data[u]) :
                 s.data[t][x] < dset.data[u][y]

\* ds.to_zarr(mapper, mode="a", append_dim=d) accepts the dataset: the
\* store holds arrays, and they agree with the dataset on the other
\* dimension.
CanWrite(s, dset, kw) ==
    kw.mode = "a" =>
        /\ s.data # << >>
        /\ Size(s.data, Other(kw.append_dim)) = Size(dset.data, Other(kw.append_dim))

\* A write that ignores append_dim: the dataset replaces the store in
\* either mode.
to_zarr_replace(s, dset, kw) ==
    [data   |-> dset.data,
     chunks |-> [d \in Dims |-> dset.chunks[d][1]]]

\* The last k positions of matrix m along dimension d.
TailAlong(m, d, k) ==
    IF d = "time" THEN SubSeq(m, Len(m) - k + 1, Len(m))
    ELSE [t \in 1..Len(m) |-> SubSeq(m[t], Len(m[t]) - k + 1, Len(m[t]))]

\* An append that does nothing when the store already ends with the
\* dataset.
to_zarr_idempotent(s, dset, kw) ==
    IF kw.mode = "w"
    THEN [data   |-> dset.data,
          chunks |-> [d \in Dims |-> dset.chunks[d][1]]]
    ELSE IF /\ Size(dset.data, kw.append_dim) <= Size(s.data, kw.append_dim)
            /\ TailAlong(s.data, kw.append_dim, Size(dset.data, kw.append_dim))
                  = dset.data
    THEN s
    ELSE [s EXCEPT !.data = Concat2(s.data, dset.data, kw.append_dim)]

\* A first write that leaves alone a store that already holds data.
to_zarr_keep_existing(s, dset, kw) ==
    IF kw.mode = "w"
    THEN IF s.data # << >> THEN s
         ELSE [data   |-> dset.data,
               chunks |-> [d \in Dims |-> dset.chunks[d][1]]]
    ELSE [s EXCEPT !.data = Concat2(s.data, dset.data, kw.append_dim)]

\* ds.to_zarr(mapper, **kwargs) (line 83): mode "w" replaces whatever the
\* store holds, its chunking taken from the dataset's dask chunks; mode "a"
\* extends the stored arrays along append_dim and keeps their chunking.
to_zarr(s, dset, kw) ==
    IF kw.mode = "w"
    THEN [data   |-> dset.data,
          chunks |-> [d \in Dims |-> dset.chunks[d][1]]]
    ELSE [s EXCEPT !.data = Concat2(s.data, dset.data, kw.append_dim)]

----------------------------------------------------------------------------
(* combine_and_write.  The store is read once, by len(mapper) on line 78,  *)
(* and written once, by to_zarr on line 83; everything before line 78      *)
(* works on the call's own locals.  The call is therefore two steps: up to *)
(* the choice of the mode, and the write with the return.                  *)

SeqsUpTo(S, n) == UNION { [1..k -> S] : k \in 0..n }

Idle(p) == pc[p] \in {"idle", "done"}

NoKwargs == [mode |-> "none", append_dim |-> "none"]

NoResult == [kind |-> "none", value |-> "none"]

\* The call is over: its frame, parameters and locals, is gone.
Leave(p) ==
    /\ pc' = [pc EXCEPT ![p] = "done"]
    /\ sources' = [sources EXCEPT ![p] = << >>]
    /\ append_dim' = [append_dim EXCEPT ![p] = "none"]
    /\ concat_dim' = [concat_dim EXCEPT ![p] = "none"]
    /\ ds' = [ds EXCEPT ![p] = NoDataset]
    /\ kwargs' = [kwargs EXCEPT ![p] = NoKwargs]

\* A failure handled inside the call and reported as a normal return.
RaiseSwallowed(p, err) ==
    /\ Leave(p)
    /\ result' = [result EXCEPT ![p] = [kind |-> "return", value |-> target[p]]]

\* An exception leaves the call: nothing in combine_and_write catches it.
Raise(p, err) ==
    /\ Leave(p)
    /\ result' = [result EXCEPT ![p] = [kind |-> "raise", value |-> err]]

\* Line 72: [fsspec.open(url).open() for url in sources]
OpenAll(urls) == [i \in 1..Len(urls) |-> FileAt(urls[i])]

\* What can go wrong outside the call while lines 72-82 run: a source that
\* cannot be read, sources whose variables do not agree, a storage that
\* cannot be listed.
Faults == {"none", "unreadable", "incompatible", "unreachable"}

\* The caller invokes combine_and_write(srcs, tgt, adim, cdim), and lines
\* 72-82 run: the sources are opened, combined and re-chunked, and the mode
\* is chosen from len(mapper).  This is what they do to the call's frame.
PrepareFrame(p, srcs, tgt, adim, cdim) ==
    /\ Idle(p)
    /\ ncalls < MaxCalls
    /\ ncalls' = ncalls + 1
    /\ target' = [target EXCEPT ![p] = tgt]
    /\ entry' = [entry EXCEPT ![p] = [store |-> store, nlog |-> Len(log),
                                      call |-> ncalls + 1]]
    /\ \E fault \in Faults :
          LET double_open_files == OpenAll(srcs) IN
          IF fault = "unreadable" /\ srcs # << >>
          THEN Raise(p, "SourceUnavailable")
          ELSE IF double_open_files = << >>
          THEN Raise(p, "NoFilesToOpen")
          ELSE IF \/ ~CanCombine(double_open_files, cdim)
                  \/ fault = "incompatible" /\ Len(srcs) > 1
          THEN Raise(p, "DatasetConflict")
          ELSE IF fault = "unreachable"
          THEN Raise(p, "StorageAccess")
          ELSE /\ sources' = [sources EXCEPT ![p] = srcs]
               /\ append_dim' = [append_dim EXCEPT ![p] = adim]
               /\ concat_dim' = [concat_dim EXCEPT ![p] = cdim]
               /\ ds' = [ds EXCEPT ![p] =
                           chunk_dim(open_mfdataset(double_open_files, cdim),
                                     adim, Len(srcs))]
               /\ kwargs' = [kwargs EXCEPT ![p] = WriteKwargs(store, adim)]
               /\ result' = [result EXCEPT ![p] = NoResult]
               /\ pc' = [pc EXCEPT ![p] = "write"]

\* Lines 72-82 with the store emptied before the sources are read.
PrepareClearsStore(p, srcs, tgt, adim, cdim) ==
    /\ PrepareFrame(p, srcs, tgt, adim, cdim)
    /\ store' = EmptyStore
    /\ UNCHANGED << log, it_vars >>

\* Lines 72-82 write nothing: the store is only listed.
Prepare(p, srcs, tgt, adim, cdim) ==
    /\ PrepareFrame(p, srcs, tgt, adim, cdim)
    /\ UNCHANGED << store, log, it_vars >>

\* Lines 83-84: ds.to_zarr(mapper, **kwargs); return target.  The write
\* fails, before anything is written, when the storage rejects it or the
\* dataset does not fit the stored arrays.
Write(p) ==
    /\ pc[p] = "write"
    /\ \E writable \in BOOLEAN :
          IF ~writable
          THEN Raise(p, "StorageAccess") /\ UNCHANGED << store, log >>
          ELSE IF ~CanWrite(store, ds[p], kwargs[p])
          THEN Raise(p, "StoreMismatch") /\ UNCHANGED << store, log >>
          ELSE /\ store' = to_zarr(store, ds[p], kwargs[p])
               /\ log' = Append(log, [call       |-> entry[p].call,
                                      sources    |-> sources[p],
                                      append_dim |-> append_dim[p],
                                      concat_dim |-> concat_dim[p],
                                      mode       |-> kwargs[p].mode,
                                      chunks     |-> ds[p].chunks,
                                      batch      |-> ds[p].data,
                                      pre        |-> store.data,
                                      post       |-> store'.data])
               /\ result' = [result EXCEPT
                               ![p] = [kind |-> "return", value |-> target[p]]]
               /\ Leave(p)
    /\ UNCHANGED << target, entry, ncalls, it_vars >>

\* A store an earlier run of the pipeline left behind.
PriorStore == [data |-> << <<7>> >>, chunks |-> [d \in Dims |-> 1]]

CwInit ==
    /\ store \in {EmptyStore, PriorStore}
    /\ pc = [p \in Procs |-> "idle"]
    /\ sources = [p \in Procs |-> << >>]
    /\ target = [p \in Procs |-> Target]
    /\ append_dim = [p \in Procs |-> "none"]
    /\ concat_dim = [p \in Procs |-> "none"]
    /\ ds = [p \in Procs |-> NoDataset]
    /\ kwargs = [p \in Procs |-> NoKwargs]
    /\ result = [p \in Procs |-> NoResult]
    /\ entry = [p \in Procs |-> [store |-> store, nlog |-> 0, call |-> 0]]
    /\ log = << >>
    /\ ncalls = 0

Init ==
    /\ CwInit
    /\ it_sources = << >>
    /\ it_size = 0
    /\ it_pos = 0
    /\ it_out = << >>
    /\ it_pc = "unused"

\* One invocation at a time, as the pipeline chains the batches: a call
\* begins only when no other is running.
SeqCall ==
    /\ \A q \in Procs : Idle(q)
    /\ \E srcs \in SeqsUpTo(Urls, MaxBatch), adim \in Dims, cdim \in Dims :
          Prepare(Main, srcs, Target, adim, cdim)

\* Invocations scheduled with no regard to one another, one per worker.
AnyCall ==
    \E p \in Procs :
        /\ pc[p] = "idle"
        /\ \E srcs \in SeqsUpTo(Urls, MaxBatch), adim \in Dims, cdim \in Dims :
              Prepare(p, srcs, Target, adim, cdim)

Finish == \E p \in Procs : Write(p)

Next == SeqCall \/ Finish

Spec == Init /\ [][Next]_vars

ConcNext == AnyCall \/ Finish

ConcSpec == Init /\ [][ConcNext]_vars

----------------------------------------------------------------------------
(* chunk: list(utils.chunked_iterable(sources, size)), the iterator taking *)
(* tuple(itertools.islice(it, size)) until a take comes back empty.        *)

Min(a, b) == IF a <= b THEN a ELSE b

\* An islice that gives up the items left over when fewer than n remain.
islice_full_only(S, pos, n) ==
    IF pos + n <= Len(S) THEN SubSeq(S, pos + 1, pos + n) ELSE << >>

\* tuple(itertools.islice(it, n)) with pos items of S already consumed: the
\* next n items, or as many as are left.
islice(S, pos, n) == SubSeq(S, pos + 1, Min(pos + n, Len(S)))

\* The caller invokes chunk(sources, size).
ChunkInit ==
    /\ CwInit
    /\ store = EmptyStore
    /\ it_sources \in SeqsUpTo(Items, MaxLen)
    /\ it_size \in 0..MaxSize
    /\ it_pos = 0
    /\ it_out = << >>
    /\ it_pc = "iterate"

\* One round of the iterator's loop; the empty take ends it, and line 17
\* returns the list.
ChunkNext ==
    /\ it_pc = "iterate"
    /\ LET taken == islice(it_sources, it_pos, it_size) IN
          IF taken = << >>
          THEN /\ it_pc' = "done"
               /\ UNCHANGED << it_pos, it_out >>
          ELSE /\ it_out' = Append(it_out, taken)
               /\ it_pos' = it_pos + Len(taken)
               /\ UNCHANGED it_pc
    /\ UNCHANGED << it_sources, it_size, cw_vars >>

ChunkSpec == ChunkInit /\ [][ChunkNext]_vars

----------------------------------------------------------------------------
(* Properties *)

RECURSIVE Flatten(_)
Flatten(ss) == IF ss = << >> THEN << >> ELSE Head(ss) \o Flatten(Tail(ss))

RECURSIVE TotalSize(_, _)
TotalSize(ms, d) ==
    IF ms = << >> THEN 0 ELSE Size(Head(ms), d) + TotalSize(Tail(ms), d)

\* Matrix M holds the matrices ms side by side along dimension d, in the
\* order of ms and nothing else: every cell of every ms[i] sits in M at its
\* own place shifted along d by the sizes of the matrices before it.
IsLayout(M, ms, d) ==
    /\ Len(ms) > 0
    /\ Size(M, d) = TotalSize(ms, d)
    /\ \A i \in 1..Len(ms) : Size(ms[i], Other(d)) = Size(M, Other(d))
    /\ \A i \in 1..Len(ms) :
          LET off == TotalSize(SubSeq(ms, 1, i - 1), d) IN
          \A t \in 1..Size(ms[i], "time") :
             \A x \in 1..Size(ms[i], "x") :
                IF d = "time" THEN M[t + off][x] = ms[i][t][x]
                ELSE M[t][x + off] = ms[i][t][x]

\* What the files behind the urls hold.
FilesOf(urls) == [i \in 1..Len(urls) |-> FileAt(urls[i])]

\* The write of the call that worker p made last, when it is the latest one.
LastWriteOf(p) == log[Len(log)]

Returned(p) ==
    /\ pc[p] = "done"
    /\ result[p].kind = "return"
    /\ log # << >>
    /\ LastWriteOf(p).call = entry[p].call

\* C1 as the claim has it: a call that found the store empty and returned
\* leaves the store holding exactly the sources, laid out along append_dim
\* in the order of the list.
C1_CreateAlongAppendDim ==
    \A p \in Procs :
        (Returned(p) /\ entry[p].store.data = << >>) =>
            IsLayout(store.data, FilesOf(LastWriteOf(p).sources),
                     LastWriteOf(p).append_dim)

\* C1, amended: a call that found the store empty and returned wrote in
\* mode "w" and leaves the store holding exactly the sources, laid out
\* along concat_dim in the order of the list.
C1_CreateAlongConcatDim ==
    \A p \in Procs :
        (Returned(p) /\ entry[p].store.data = << >>) =>
            /\ LastWriteOf(p).mode = "w"
            /\ IsLayout(store.data, FilesOf(LastWriteOf(p).sources),
                        LastWriteOf(p).concat_dim)

C1_Witness ==
    /\ Returned(Main)
    /\ entry[Main].store.data = << >>
    /\ LastWriteOf(Main).sources = << "cache/1.nc", "cache/0.nc" >>
    /\ LastWriteOf(Main).concat_dim = "time"
    /\ store.data = << <<2>>, <<3>>, <<0>>, <<1>> >>

\* C2: a call that found the store non-empty and returned wrote in mode
\* "a" and leaves the store holding what it held before, every cell in its
\* place, followed along append_dim by the batch, which is the sources laid
\* out along concat_dim; the store's chunking is what it was.
C2_AppendKeepsPrior ==
    \A p \in Procs :
        (Returned(p) /\ entry[p].store.data # << >>) =>
            /\ LastWriteOf(p).mode = "a"
            /\ IsLayout(LastWriteOf(p).batch, FilesOf(LastWriteOf(p).sources),
                        LastWriteOf(p).concat_dim)
            /\ IsLayout(store.data,
                        << entry[p].store.data, LastWriteOf(p).batch >>,
                        LastWriteOf(p).append_dim)
            /\ store.chunks = entry[p].store.chunks

C2_Witness ==
    /\ Returned(Main)
    /\ Len(log) = 2
    /\ log[1].sources = << "cache/0.nc", "cache/0.nc" >>
    /\ log[2].sources = << "cache/1.nc", "cache/1.nc" >>
    /\ log[2].append_dim = "time"
    /\ log[2].concat_dim = "x"
    /\ store.data = << <<0, 0>>, <<1, 1>>, <<2, 2>>, <<3, 3>> >>

\* The dataset the cache was cut from, and the list of its files in order.
AllSources == << "cache/0.nc", "cache/1.nc" >>

OriginalRows(n) == [i \in 1..n |-> << i - 1 >>]

IsPrefix(s, t) == Len(s) <= Len(t) /\ SubSeq(t, 1, Len(s)) = s

LoggedSources == Flatten([i \in 1..Len(log) |-> log[i].sources])

\* The writes so far are consecutive batches of the dataset, in order, into
\* a store that began empty, each appended along the dimension of the cut.
ConsecutiveBatches ==
    /\ log # << >>
    /\ log[1].pre = << >>
    /\ IsPrefix(LoggedSources, AllSources)
    /\ \A i \in 1..Len(log) : log[i].append_dim = "time"

RoundTrips ==
    /\ store.data = OriginalRows(TotalSize(FilesOf(LoggedSources), "time"))
    /\ log[1].mode = "w"
    /\ \A i \in 2..Len(log) : log[i].mode = "a"

\* C3 as the claim has it: consecutive batches written in order to an empty
\* store give back the dataset, the first write creating and the later ones
\* appending.
C3_RoundTripAnyConcatDim == ConsecutiveBatches => RoundTrips

\* C3, amended: the same, when every call is given the append dimension as
\* its concat_dim too.
C3_RoundTrip ==
    (/\ ConsecutiveBatches
     /\ \A i \in 1..Len(log) : log[i].concat_dim = log[i].append_dim)
    => RoundTrips

C3_Witness ==
    /\ Returned(Main)
    /\ Len(log) = 2
    /\ ConsecutiveBatches
    /\ log[1].sources = << "cache/0.nc" >>
    /\ log[2].sources = << "cache/1.nc" >>
    /\ \A i \in 1..2 : log[i].concat_dim = "time"
    /\ store.data = << <<0>>, <<1>>, <<2>>, <<3>> >>

SameBatch(e, f) ==
    /\ e.sources = f.sources
    /\ e.append_dim = f.append_dim
    /\ e.concat_dim = f.concat_dim

\* C5: two successive calls with the same batch on a non-empty store both
\* append: the store ends with what it held, then the batch, then the batch
\* again along append_dim.
C5_TwiceAppendsTwice ==
    \A i \in 1..Len(log) - 1 :
        (log[i].pre # << >> /\ SameBatch(log[i], log[i + 1])) =>
            /\ log[i].mode = "a"
            /\ log[i + 1].mode = "a"
            /\ IsLayout(log[i + 1].post,
                        << log[i].pre, log[i].batch, log[i].batch >>,
                        log[i].append_dim)
            /\ i + 1 = Len(log) => store.data = log[i + 1].post

C5_Witness ==
    /\ Returned(Main)
    /\ Len(log) = 2
    /\ log[1].pre = << <<7>> >>
    /\ SameBatch(log[1], log[2])
    /\ log[1].sources = << "cache/0.nc" >>
    /\ store.data = << <<7>>, <<0>>, <<1>>, <<0>>, <<1>> >>

\* C6 as the claim has it: between lines 75 and 83 the combined dataset has
\* exactly one dask chunk along append_dim, whatever the sources hold.
C6_OneChunkPerBatch ==
    \A p \in Procs :
        pc[p] = "write" => Len(ds[p].chunks[append_dim[p]]) = 1

Cells(m) == { m[t][x] : t \in 1..Size(m, "time"), x \in 1..Size(m, "x") }

\* Some index of the batch is not after every index the store holds.
OutOfOrder(pre, batch) ==
    \E a \in Cells(pre), b \in Cells(batch) : b <= a

\* C8: a batch that is out of order or overlaps what the store holds is
\* taken like any other: the write accepts it whenever its shape fits, and
\* the store then holds it after the earlier writes, in call order.
C8_OutOfOrderUndetected ==
    /\ \A p \in Procs :
          (/\ pc[p] = "write"
           /\ kwargs[p].mode = "a"
           /\ Size(store.data, Other(append_dim[p]))
                 = Size(ds[p].data, Other(append_dim[p])))
          => CanWrite(store, ds[p], kwargs[p])
    /\ \A i \in 1..Len(log) :
          (log[i].mode = "a" /\ OutOfOrder(log[i].pre, log[i].batch)) =>
             /\ IsLayout(log[i].post, << log[i].pre, log[i].batch >>,
                         log[i].append_dim)
             /\ i = Len(log) => store.data = log[i].post

C8_Witness ==
    /\ Returned(Main)
    /\ Len(log) = 2
    /\ log[1].sources = << "cache/1.nc" >>
    /\ log[2].sources = << "cache/0.nc" >>
    /\ store.data = << <<2>>, <<3>>, <<0>>, <<1>> >>

\* Both workers found the store empty, wrote in mode "w" and returned.
BothCreated ==
    /\ \A p \in Procs : pc[p] = "done" /\ result[p].kind = "return"
    /\ Len(log) = 2
    /\ log[1].mode = "w"
    /\ log[2].mode = "w"

\* C9: when two overlapping calls both found the store empty and both
\* returned, the store holds the later write's batch alone: the earlier
\* write's batch, which the later write found in the store, is gone.
C9_BothCreateOneSurvives ==
    BothCreated =>
        /\ log[2].pre = log[1].batch
        /\ store.data = log[2].batch

C9_Witness ==
    /\ BothCreated
    /\ log[1].sources = << "cache/0.nc" >>
    /\ log[2].sources = << "cache/1.nc" >>
    /\ store.data = << <<2>>, <<3>> >>


\* C4: when chunk(S, n) with n > 0 has returned, its tuples concatenated in
\* order are S; every tuple but the last has length n; the last has length
\* len(S) mod n, or n when n divides len(S); an empty S gives an empty list.
C4_ChunkPartitions ==
    (it_pc = "done" /\ it_size > 0) =>
        /\ Flatten(it_out) = it_sources
        /\ \A i \in 1..Len(it_out) - 1 : Len(it_out[i]) = it_size
        /\ it_out # << >> =>
              Len(it_out[Len(it_out)]) =
                 (IF Len(it_sources) % it_size = 0 THEN it_size
                  ELSE Len(it_sources) % it_size)
        /\ it_sources = << >> => it_out = << >>

C4_Witness ==
    /\ it_pc = "done"
    /\ it_size = 2
    /\ it_sources = << 1, 2, 3 >>
    /\ it_out = << << 1, 2 >>, << 3 >> >>

\* C7: a call that is over either returned its own target, its write done,
\* or raised one of the failures of opening, combining, listing or writing;
\* no failure became a return value.
C7_ReturnOrRaise ==
    \A p \in Procs :
        pc[p] = "done" =>
            \/ /\ result[p] = [kind |-> "return", value |-> target[p]]
               /\ \E i \in 1..Len(log) : log[i].call = entry[p].call
            \/ /\ result[p].kind = "raise"
               /\ result[p].value \in {"SourceUnavailable", "NoFilesToOpen",
                                       "DatasetConflict", "StoreMismatch",
                                       "StorageAccess"}
               /\ \A i \in 1..Len(log) : log[i].call # entry[p].call

C7_Witness ==
    /\ pc[Main] = "done"
    /\ result[Main].kind = "raise"
    /\ result[Main].value = "StorageAccess"
    /\ Len(log) = 1
    /\ log[1].mode = "w"

\* C10: once the sources are opened and combined, and after a call that
\* failed there, the store and the log of writes are what they were when the
\* call began.
C10_FailedOpenLeavesStore ==
    \A p \in Procs :
        (\/ pc[p] = "write"
         \/ /\ pc[p] = "done"
            /\ result[p].kind = "raise"
            /\ result[p].value \in {"SourceUnavailable", "NoFilesToOpen",
                                    "DatasetConflict"})
        => /\ store = entry[p].store
           /\ Len(log) = entry[p].nlog

C10_Witness ==
    /\ pc[Main] = "done"
    /\ result[Main] = [kind |-> "raise", value |-> "SourceUnavailable"]
    /\ Len(log) = 1
    /\ store.data = log[1].post

====
